---- MODULE Spec2Model ----
(***************************************************************************)
(* A model of safer-ts: the Option and Result monads, the IO deferred      *)
(* effect and the persistent SafeMap, and two of the adapters built on     *)
(* them, SafeJSON and SafeWebSocket.                                       *)
(*                                                                         *)
(* JavaScript values are written as strings naming their literals, so     *)
(* that null, undefined, 0, "" and false are five distinct values.  An    *)
(* operation of the library is an operator that yields a completion: how  *)
(* the call ended (return or throw), what it returned, and the callback   *)
(* invocations it made, in order.                                          *)
(***************************************************************************)
EXTENDS Integers, Sequences, FiniteSets, TLC

VARIABLES
    component,  \* which part of the library the program exercises
    opt,        \* the Option the program holds
    res,        \* the Result the program holds
    call,       \* the last call: its name, arguments and completion
    n,          \* the counter the program's effect increments
    ios,        \* the IO objects built so far
    runs,       \* the IOs the program ran (UNSAFE_run), in order
    heap,       \* the Map objects
    safe,       \* the SafeMap objects the program holds
    callerMap,  \* the Map the program built and keeps for itself (NoMap: none)
    config,     \* what createSafeWebSocket was given: which of its versions, the schema
    ws,         \* the WebSocket: its readyState, its event listeners, the events it fired
    promise,    \* the promise the run of createSafeWebSocket's IO returned
    heard       \* the calls made so far to the user's listeners and to resolve and reject

socketVars == <<config, ws, promise, heard>>
vars == <<component, opt, res, call, n, ios, runs, heap, safe, callerMap, socketVars>>

(***************************************************************************)
(* Values.                                                                 *)
(***************************************************************************)
JSNull == "null"
JSUndefined == "undefined"
JSZero == "0"
JSEmptyString == ""
JSFalse == "false"
JSObject == "obj"

\* The payloads the callbacks range over: both nullish values and a falsy one.
Data == {JSNull, JSUndefined, JSZero}
\* The values handed to intoOption.
JSValues == Data \cup {JSEmptyString, JSFalse, JSObject}
Errors == {"e1", "e2"}

\* A completion of a call: kind is "return" or "throw"; calls lists the
\* callback invocations the call made, in order.
Return(value, calls) == [kind |-> "return", value |-> value, calls |-> calls]
Throw(message) == [kind |-> "throw", value |-> message, calls |-> <<>>]
Invoke(fn, arg) == [fn |-> fn, arg |-> arg]

(***************************************************************************)
(* Result (monads/Result.ts).                                              *)
(***************************************************************************)
Ok(data) == [type |-> "ok", data |-> data]
Err(error) == [type |-> "err", error |-> error]
isOk(result) == result.type = "ok"
isErr(result) == result.type = "err"

Results == {Ok(d) : d \in Data} \cup {Err(e) : e \in Errors}

Result_isOk(self) == Return(isOk(self), <<>>)
Result_isErr(self) == Return(isErr(self), <<>>)

Result_map(self, mapper) ==
    IF isOk(self)
    THEN Return(Ok(mapper[self.data]), <<Invoke("mapper", self.data)>>)
    ELSE Return(self, <<>>)

\* A slip: mapErr copied from map, wrapping the mapped error in Ok.
Result_mapErr_yieldsOk(self, mapper) ==
    IF isErr(self)
    THEN Return(Ok(mapper[self.error]), <<Invoke("mapper", self.error)>>)
    ELSE Return(self, <<>>)

Result_mapErr(self, mapper) ==
    IF isErr(self)
    THEN Return(Err(mapper[self.error]), <<Invoke("mapper", self.error)>>)
    ELSE Return(self, <<>>)

\* A slip: chainer is called and the receiver returned, as inspect does.
Result_andThen_keepsSelf(self, chainer) ==
    IF isOk(self)
    THEN Return(self, <<Invoke("chainer", self.data)>>)
    ELSE Return(self, <<>>)

Result_andThen(self, chainer) ==
    IF isOk(self)
    THEN Return(chainer[self.data], <<Invoke("chainer", self.data)>>)
    ELSE Return(self, <<>>)

Result_orElse(self, chainer) ==
    IF isErr(self)
    THEN Return(chainer[self.error], <<Invoke("chainer", self.error)>>)
    ELSE Return(self, <<>>)

UnwrapOnErr == "Attempted to unwrap data of Err!"
UnwrapOnOk == "Attempted to unwrap error of Ok!"

Result_unwrap(self) ==
    IF isOk(self) THEN Return(self.data, <<>>) ELSE Throw(UnwrapOnErr)

\* A slip: unwrapErr throws unwrap's error.
Result_unwrapErr_sameError(self) ==
    IF isErr(self) THEN Return(self.error, <<>>) ELSE Throw(UnwrapOnErr)

Result_unwrapErr(self) ==
    IF isErr(self) THEN Return(self.error, <<>>) ELSE Throw(UnwrapOnOk)

Result_inspect(self) ==
    IF isOk(self)
    THEN Return(self, <<Invoke("fn", self.data)>>)
    ELSE Return(self, <<>>)

\* A slip: inspectErr copied from inspect, the test left as isOk.
Result_inspectErr_onOk(self) ==
    IF isOk(self)
    THEN Return(self, <<Invoke("fn", self.data)>>)
    ELSE Return(self, <<>>)

Result_inspectErr(self) ==
    IF isErr(self)
    THEN Return(self, <<Invoke("fn", self.error)>>)
    ELSE Return(self, <<>>)

\* cases.Ok and cases.Err are the two arms; each maps its argument to a value.
Result_caseOf(self, okArm, errArm) ==
    IF isOk(self)
    THEN Return(okArm[self.data], <<Invoke("Ok", self.data)>>)
    ELSE Return(errArm[self.error], <<Invoke("Err", self.error)>>)

(***************************************************************************)
(* Option (monads/Option.ts).                                              *)
(***************************************************************************)
Some(data) == [type |-> "some", data |-> data]
None == [type |-> "none"]
isSome(option) == option.type = "some"
isNone(option) == option.type = "none"

Options == {Some(d) : d \in Data} \cup {None}

Option_isSome(self) == Return(isSome(self), <<>>)
Option_isNone(self) == Return(isNone(self), <<>>)

\* A slip: the mapped value goes through intoOption instead of Some.
Option_map_nullish(self, mapper) ==
    IF isSome(self)
    THEN Return(IF mapper[self.data] = JSUndefined \/ mapper[self.data] = JSNull
                THEN None ELSE Some(mapper[self.data]),
                <<Invoke("mapper", self.data)>>)
    ELSE Return(self, <<>>)

Option_map(self, mapper) ==
    IF isSome(self)
    THEN Return(Some(mapper[self.data]), <<Invoke("mapper", self.data)>>)
    ELSE Return(self, <<>>)

\* A slip: chainer is called and the receiver returned, as inspect does.
Option_andThen_keepsSelf(self, chainer) ==
    IF isSome(self)
    THEN Return(self, <<Invoke("chainer", self.data)>>)
    ELSE Return(self, <<>>)

Option_andThen(self, chainer) ==
    IF isSome(self)
    THEN Return(chainer[self.data], <<Invoke("chainer", self.data)>>)
    ELSE Return(self, <<>>)

\* A slip: the alternative is computed first, chainer() called on Some too.
Option_orElse_eager(self, chained) ==
    IF isNone(self)
    THEN Return(chained, <<Invoke("chainer", JSUndefined)>>)
    ELSE Return(self, <<Invoke("chainer", JSUndefined)>>)

Option_orElse(self, chained) ==
    IF isNone(self)
    THEN Return(chained, <<Invoke("chainer", JSUndefined)>>)
    ELSE Return(self, <<>>)

UnwrapOnNone == "Attempted to unwrap data from None!"

Option_unwrap(self) ==
    IF isSome(self) THEN Return(self.data, <<>>) ELSE Throw(UnwrapOnNone)

Option_inspect(self) ==
    IF isSome(self)
    THEN Return(self, <<Invoke("fn", self.data)>>)
    ELSE Return(self, <<>>)

\* A slip: okOr written over unwrap, Ok(this.unwrap()), faults on None.
Option_okOr_unwrapping(self, error) ==
    IF isSome(self) THEN Return(Ok(self.data), <<>>) ELSE Throw(UnwrapOnNone)

Option_okOr(self, error) ==
    IF isSome(self) THEN Return(Ok(self.data), <<>>) ELSE Return(Err(error), <<>>)

\* matcher.Some maps the payload to a value; matcher.None yields noneArm.
Option_match(self, someArm, noneArm) ==
    IF isSome(self)
    THEN Return(someArm[self.data], <<Invoke("Some", self.data)>>)
    ELSE Return(noneArm, <<Invoke("None", JSUndefined)>>)

Option_caseOf(self, someArm, noneArm) ==
    IF isSome(self)
    THEN Return(someArm[self.data], <<Invoke("Some", self.data)>>)
    ELSE Return(noneArm, <<Invoke("None", JSUndefined)>>)

\* A slip: a truthiness test, data ? Some(data) : None().
intoOption_falsy(data) ==
    IF data \in {JSUndefined, JSNull, JSZero, JSEmptyString, JSFalse} THEN None ELSE Some(data)

intoOption(data) ==
    IF data = JSUndefined \/ data = JSNull THEN None ELSE Some(data)

(***************************************************************************)
(* IO (monads/IO.ts).  An IO holds one nullary function, _fn.  A function  *)
(* is written as a closure: its code (kind), the IO it captured as `this`  *)
(* (self, an index into ios; 0 when it captures none), the callback it     *)
(* captured (fn) and the number it captured (arg).                         *)
(*   counter  () => { n += 1; return n }                                   *)
(*   const    () => arg                                                    *)
(*   succ     () => arg + 1, the function of the IO chainSucc returns      *)
(*   twice    () => 2 * arg, the function of the IO chainTwice returns     *)
(*   map      () => mapper(this.UNSAFE_run())                              *)
(*   andThen  () => chainer(this.UNSAFE_run()).UNSAFE_run()                *)
(***************************************************************************)
Closure(kind, self, fn, arg) == [kind |-> kind, self |-> self, fn |-> fn, arg |-> arg]

UserThunks == {Closure("counter", 0, "", 0), Closure("const", 0, "", 1)}
Mappers == {"inc", "double"}
Chainers == {"chainSucc", "chainTwice"}

\* A step of a run: what it returned, the counter afterwards, and the
\* functions it invoked, in order.
Effect(ret, cnt, log) == [kind |-> "return", ret |-> ret, n |-> cnt, log |-> log]

ApplyMapper(mapper, x) == IF mapper = "inc" THEN x + 1 ELSE 2 * x

\* io(fn): builds the IO; nothing is invoked.
io(fn, cnt) == Effect([_fn |-> fn], cnt, <<>>)

\* x => io(() => x + 1) and x => io(() => 2 * x)
ApplyChainer(chainer, x, cnt) ==
    IF chainer = "chainSucc"
    THEN io(Closure("succ", 0, "", x), cnt)
    ELSE io(Closure("twice", 0, "", x), cnt)

\* A slip: andThen's function leaves out the trailing .UNSAFE_run(), so the IO
\* the chainer returns is built and never run.
RECURSIVE CallFn_innerNotRun(_, _, _)
CallFn_innerNotRun(store, fn, cnt) ==
    CASE fn.kind = "counter" ->
            Effect(cnt + 1, cnt + 1, <<Invoke("counter", 0)>>)
      [] fn.kind = "const" ->
            Effect(fn.arg, cnt, <<Invoke("const", fn.arg)>>)
      [] fn.kind = "map" ->
            LET r == CallFn_innerNotRun(store, store[fn.self]._fn, cnt)
            IN  Effect(ApplyMapper(fn.fn, r.ret), r.n,
                       r.log \o <<Invoke(fn.fn, r.ret)>>)
      [] fn.kind = "andThen" ->
            LET r == CallFn_innerNotRun(store, store[fn.self]._fn, cnt)
                c == ApplyChainer(fn.fn, r.ret, r.n)
            IN  Effect(r.ret, c.n, r.log \o <<Invoke(fn.fn, r.ret)>> \o c.log)

RECURSIVE CallFn(_, _, _)
CallFn(store, fn, cnt) ==
    CASE fn.kind = "counter" ->
            Effect(cnt + 1, cnt + 1, <<Invoke("counter", 0)>>)
      [] fn.kind = "const" ->
            Effect(fn.arg, cnt, <<Invoke("const", fn.arg)>>)
      [] fn.kind = "succ" ->
            Effect(fn.arg + 1, cnt, <<Invoke("succ", fn.arg)>>)
      [] fn.kind = "twice" ->
            Effect(2 * fn.arg, cnt, <<Invoke("twice", fn.arg)>>)
      [] fn.kind = "map" ->
            LET r == CallFn(store, store[fn.self]._fn, cnt)
            IN  Effect(ApplyMapper(fn.fn, r.ret), r.n,
                       r.log \o <<Invoke(fn.fn, r.ret)>>)
      [] fn.kind = "andThen" ->
            LET r == CallFn(store, store[fn.self]._fn, cnt)
                c == ApplyChainer(fn.fn, r.ret, r.n)
                q == CallFn(store, c.ret._fn, c.n)
            IN  Effect(q.ret, q.n,
                       r.log \o <<Invoke(fn.fn, r.ret)>> \o c.log \o q.log)

\* UNSAFE_run() { return this._fn(); }
UNSAFE_run(store, self, cnt) == CallFn(store, store[self]._fn, cnt)

\* A slip: map runs the receiver at once and wraps the mapped value.
IO_map_eager(store, self, mapper, cnt) ==
    LET r == UNSAFE_run(store, self, cnt)
    IN  Effect([_fn |-> Closure("const", 0, "", ApplyMapper(mapper, r.ret))], r.n,
               r.log \o <<Invoke(mapper, r.ret)>>)

\* map(mapper) { return io(() => mapper(this.UNSAFE_run())); }
IO_map(store, self, mapper, cnt) == io(Closure("map", self, mapper, 0), cnt)

\* andThen(chainer) { return io(() => chainer(this.UNSAFE_run()).UNSAFE_run()); }
IO_andThen(store, self, chainer, cnt) == io(Closure("andThen", self, chainer, 0), cnt)

(***************************************************************************)
(* SafeMap (datastructures/SafeMap.ts) over JavaScript's Map.  A Map is    *)
(* its list of entries in insertion order; heap holds the Map objects and  *)
(* a reference to one is its index.  A SafeMap is its _map reference.      *)
(***************************************************************************)
Keys == {"a", "b"}

Entry(key, value) == [key |-> key, value |-> value, live |-> TRUE]

\* The index of the live entry of key, 0 when there is none.
IndexOf(entries, key) ==
    LET hits == {i \in DOMAIN entries : entries[i].live /\ entries[i].key = key}
    IN  IF hits = {} THEN 0 ELSE CHOOSE i \in hits : TRUE

Map_has(entries, key) == IndexOf(entries, key) # 0

Map_get(entries, key) ==
    IF Map_has(entries, key) THEN entries[IndexOf(entries, key)].value ELSE JSUndefined

\* An existing key keeps its place and takes the value; a new key goes last.
Map_set(entries, key, value) ==
    IF Map_has(entries, key)
    THEN [entries EXCEPT ![IndexOf(entries, key)].value = value]
    ELSE Append(entries, Entry(key, value))

\* A deleted entry is emptied where it stands (ECMAScript's Map.prototype.delete
\* and clear), so that an iteration in progress keeps its position.
Map_delete(entries, key) ==
    IF Map_has(entries, key)
    THEN [entries EXCEPT ![IndexOf(entries, key)].live = FALSE]
    ELSE entries

Map_clear(entries) == [i \in DOMAIN entries |-> [entries[i] EXCEPT !.live = FALSE]]

\* Emptied entries are unobservable once no iteration is in progress.
Compact(entries) == SelectSeq(entries, LAMBDA e : e.live)

\* new Map(iterable): the live entries of the iterable, set one by one.
RECURSIVE MapFrom(_, _)
MapFrom(iterable, acc) ==
    IF iterable = <<>> THEN acc
    ELSE IF ~Head(iterable).live THEN MapFrom(Tail(iterable), acc)
    ELSE MapFrom(Tail(iterable), Map_set(acc, Head(iterable).key, Head(iterable).value))

\* What a callback handed to forEach does with its third argument, the Map.
Callback(kind, key, value) == [kind |-> kind, key |-> key, value |-> value]

Callbacks ==
    {Callback("noop", "a", JSUndefined), Callback("clear", "a", JSUndefined),
     Callback("set", "b", JSZero), Callback("delete", "a", JSUndefined)}

RunCallback(fn, entries) ==
    CASE fn.kind = "set" -> Map_set(entries, fn.key, fn.value)
      [] fn.kind = "delete" -> Map_delete(entries, fn.key)
      [] fn.kind = "clear" -> Map_clear(entries)
      [] OTHER -> entries

\* Map.prototype.forEach: visits the entries by position, skipping emptied
\* ones and reaching those appended meanwhile; fn(value, key, map) at each.
RECURSIVE Map_forEach(_, _, _, _)
Map_forEach(entries, index, fn, calls) ==
    IF index > Len(entries) THEN [entries |-> entries, calls |-> calls]
    ELSE IF ~entries[index].live THEN Map_forEach(entries, index + 1, fn, calls)
    ELSE Map_forEach(RunCallback(fn, entries), index + 1, fn,
                     Append(calls, Invoke("fn", <<entries[index].value, entries[index].key>>)))

\* A completion that also carries the heap the call left behind.
Done(h, value, calls) == [kind |-> "return", value |-> value, calls |-> calls, heap |-> h]

NoMap == 0

\* _map: new Map(existingMap ?? [])
\* A slip: the Map handed in is adopted, _map: existingMap ?? new Map().
createSafeMap_adoptsMap(h, existingMap) ==
    IF existingMap = NoMap
    THEN Done(Append(h, <<>>), [_map |-> Len(h) + 1], <<>>)
    ELSE Done(h, [_map |-> existingMap], <<>>)

createSafeMap(h, existingMap) ==
    LET source == IF existingMap = NoMap THEN <<>> ELSE h[existingMap]
        h1 == Append(h, MapFrom(source, <<>>))
    IN  Done(h1, [_map |-> Len(h1)], <<>>)

SafeMap_get(h, self, key) == Done(h, intoOption(Map_get(h[self._map], key)), <<>>)

SafeMap_has(h, self, key) == Done(h, Map_has(h[self._map], key), <<>>)

\* A slip: set written in place, this._map.set(key, value); return this.
SafeMap_set_inPlace(h, self, key, value) ==
    Done([h EXCEPT ![self._map] = Map_set(h[self._map], key, value)], self, <<>>)

SafeMap_set(h, self, key, value) ==
    LET h1 == Append(h, MapFrom(h[self._map], <<>>))
        clonedMap == Len(h1)
        h2 == [h1 EXCEPT ![clonedMap] = Map_set(h1[clonedMap], key, value)]
    IN  createSafeMap(h2, clonedMap)

SafeMap_clear(h, self) == createSafeMap(h, NoMap)

SafeMap_delete(h, self, key) ==
    LET h1 == Append(h, MapFrom(h[self._map], <<>>))
        clonedMap == Len(h1)
        h2 == [h1 EXCEPT ![clonedMap] = Map_delete(h1[clonedMap], key)]
    IN  createSafeMap(h2, clonedMap)

SafeMap_entries(h, self) == Done(h, [e \in DOMAIN h[self._map] |->
                                 <<h[self._map][e].key, h[self._map][e].value>>], <<>>)
SafeMap_keys(h, self) == Done(h, [e \in DOMAIN h[self._map] |-> h[self._map][e].key], <<>>)
SafeMap_values(h, self) == Done(h, [e \in DOMAIN h[self._map] |-> h[self._map][e].value], <<>>)

SafeMap_forEach(h, self, fn) ==
    LET r == Map_forEach(h[self._map], 1, fn, <<>>)
    IN  Done([h EXCEPT ![self._map] = r.entries], self, r.calls)

\* A Map no SafeMap refers to (the clonedMap of set and delete, once they
\* return) is unreachable: the heap keeps the reachable Maps, renumbered.
Reachable(s) == {s[i]._map : i \in DOMAIN s}
Renumber(s, ref) == Cardinality({r \in Reachable(s) : r <= ref})
CollectHeap(h, s) ==
    [j \in 1..Cardinality(Reachable(s)) |->
        Compact(h[CHOOSE r \in Reachable(s) : Renumber(s, r) = j])]
CollectRefs(s) == [i \in DOMAIN s |-> [_map |-> Renumber(s, s[i]._map)]]

(***************************************************************************)
(* SafeJSON (modules/SafeJSON.ts, and its earlier parseJSON(json, schema)). *)
(* JSON.parse is a table from texts to values; a schema is the set of      *)
(* values its safeParse accepts.                                           *)
(***************************************************************************)
JSONNull == [kind |-> "null"]
JSONNumber == [kind |-> "number"]
JSONString == [kind |-> "string"]
JSONObject == [kind |-> "object"]
JSONValues == {JSONNull, JSONNumber, JSONString, JSONObject}

\* The texts handed to the parsers; the first two are not JSON.
Raws == {"", "{a:1", " null", "1e0", "\"a\"", "{\"a\":1}"}

SyntaxError == "SyntaxError"

JSON_parse(json) ==
    CASE json = " null" -> Return(JSONNull, <<>>)
      [] json = "1e0" -> Return(JSONNumber, <<>>)
      [] json = "\"a\"" -> Return(JSONString, <<>>)
      [] json = "{\"a\":1}" -> Return(JSONObject, <<>>)
      [] OTHER -> Throw(SyntaxError)

Schemas == SUBSET JSONValues

ZodError(obj) == [issue |-> obj.kind]

safeParse(schema, obj) ==
    IF obj \in schema
    THEN [success |-> TRUE, data |-> obj]
    ELSE [success |-> FALSE, error |-> ZodError(obj)]

parseWithSchema(schema, obj) ==
    LET result == safeParse(schema, obj)
    IN  IF result.success = TRUE
        THEN Return(Ok(result.data), <<Invoke("safeParse", obj)>>)
        ELSE Return(Err(result.error), <<Invoke("safeParse", obj)>>)

\* A slip: no try around JSON.parse.
parseJSON_uncaught(json) ==
    LET parsed == JSON_parse(json)
    IN  IF parsed.kind = "throw" THEN parsed ELSE Return(Ok(parsed.value), <<>>)

parseJSON(json) ==
    LET parsed == JSON_parse(json)
    IN  IF parsed.kind = "throw"
        THEN Return(Err(parsed.value), <<>>)
        ELSE Return(Ok(parsed.value), <<>>)

ParseError(error) == [type |-> "PARSE_ERROR", error |-> error]
SchemaError(error) == [type |-> "ZOD_ERROR", error |-> error]

\* parseJSON(json).mapErr(..).andThen(data => parseWithSchema(schema)(data).mapErr(..)):
\* a fault in a step ends the call; otherwise the steps' calls are recorded.
parseJSONWithSchema(schema, json) ==
    LET parsed == parseJSON(json)
    IN  IF parsed.kind = "throw" THEN parsed
        ELSE
        LET tagged == Result_mapErr(parsed.value,
                                    [error \in {SyntaxError} |-> ParseError(error)])
            validate == [data \in JSONValues |-> parseWithSchema(schema, data)]
            chainer == [data \in JSONValues |->
                          Result_mapErr(validate[data].value,
                                        [error \in {ZodError(v) : v \in JSONValues} |->
                                            SchemaError(error)]).value]
            chained == Result_andThen(tagged.value, chainer)
        IN  Return(chained.value,
                   IF chained.calls = <<>> THEN <<>>
                   ELSE validate[chained.calls[1].arg].calls)

\* The earlier parseJSON(json, schema): JSON.parse and schema.safeParse inside
\* one try block.
parseJSON_schema(json, schema) ==
    LET obj == JSON_parse(json)
    IN  IF obj.kind = "throw"
        THEN Return(Err(ParseError(obj.value)), <<>>)
        ELSE LET result == safeParse(schema, obj.value)
             IN  IF ~result.success
                 THEN Return(Err(SchemaError(result.error)), <<Invoke("safeParse", obj.value)>>)
                 ELSE Return(Ok(result.data), <<Invoke("safeParse", obj.value)>>)

(***************************************************************************)
(* SafeWebSocket: createSafeWebSocket of SafeWebSocket.ts ("first"), of    *)
(* modules/SafeWebSocket.ts with a config ("config") and curried           *)
(* ("curried"), and of the version with createWebSocket ("injected").      *)
(* The WebSocket is its readyState, its listeners in the order they were   *)
(* added, and the events it has fired.  A world is what a handler can      *)
(* change: the WebSocket, the promise and the calls heard.                 *)
(***************************************************************************)
Versions == {"first", "config", "curried", "injected"}

NoSocket == [readyState |-> "none", listeners |-> <<>>, events |-> <<>>]
NoPromise == [state |-> "none", value |-> JSUndefined]
Pending == [state |-> "pending", value |-> JSUndefined]

Event(type, data) == [type |-> type, data |-> data]
Listener(type, handler) == [type |-> type, handler |-> handler]

\* ws.addEventListener(type, handler)
addEventListener(w, type, handler) ==
    [w EXCEPT !.ws.listeners = Append(@, Listener(type, handler))]

\* A call of a user's listener, or of the promise's resolve or reject.
Hear(w, fn, arg) == [w EXCEPT !.heard = Append(@, Invoke(fn, arg))]

\* resolve(value) and reject(value): only a pending promise settles.
Settle(w, state, value) ==
    IF w.promise.state = "pending"
    THEN [w EXCEPT !.promise = [state |-> state, value |-> value]]
    ELSE w
resolve(w, value) == Settle(Hear(w, "resolve", value), "fulfilled", value)
reject(w, value) == Settle(Hear(w, "reject", value), "rejected", value)

\* What each version resolves the promise with on open.
Opened(version) ==
    CASE version = "first" -> Ok("safeWebSocket")
      [] version = "injected" -> Ok("safeWs")
      [] OTHER -> Ok("{}")

\* bindSafeWebSocketListeners (intoSafeWebSocket in the injected version)
bindSafeWebSocketListeners(w) ==
    LET listening == Hear(w, "onConnectionOpened", "safeWs")
    IN  addEventListener(addEventListener(listening, "close", "onClose"),
                         "message", "message")

\* A slip: the message is parsed and never checked against the schema.
OnMessage_unvalidated(w, schema, data) ==
    LET parsed == parseJSON(data)
    IN  IF isOk(parsed.value)
        THEN Hear(w, "onMessage", parsed.value.data)
        ELSE Hear(w, "onInvalidMessage", <<ParseError(parsed.value.error), data>>)

\* ({data}) => parseJSONWithSchema(schema)(data).caseOf({Ok: onMessage,
\*             Err: error => onInvalidMessage(error, data)})
OnMessage(w, schema, data) ==
    LET parsed == parseJSONWithSchema(schema, data)
    IN  IF parsed.kind = "throw" THEN w
        ELSE IF isOk(parsed.value)
        THEN Hear(w, "onMessage",
                  Result_caseOf(parsed.value, [d \in JSONValues |-> d],
                                [e \in {} |-> e]).calls[1].arg)
        ELSE Hear(w, "onInvalidMessage",
                  <<Result_caseOf(parsed.value, [d \in {} |-> d],
                                  [e \in {parsed.value.error} |-> e]).calls[1].arg,
                    data>>)

\* The body of each listener the code adds.
RunHandler(w, cfg, handler, event) ==
    CASE handler = "open" ->
            IF cfg.version = "first"
            THEN resolve(addEventListener(w, "close", "onDisconnect"), Opened(cfg.version))
            ELSE resolve(bindSafeWebSocketListeners(w), Opened(cfg.version))
      [] handler = "error" ->
            IF cfg.version = "first" THEN reject(w, Err(event)) ELSE resolve(w, Err(event))
      [] handler = "onDisconnect" -> Hear(w, "onDisconnect", event)
      [] handler = "onClose" -> Hear(w, "onClose", event)
      [] handler = "message" -> OnMessage(w, cfg.schema, event.data)
      [] handler = "listen" ->
            Hear(w, "listener", <<parseJSON_schema(event.data, cfg.schema).value, event.data>>)

\* The WebSocket fires an event: the listeners of its type that were there
\* when it fired run in the order they were added.
RECURSIVE RunListeners(_, _, _, _)
RunListeners(w, cfg, listeners, event) ==
    IF listeners = <<>> THEN w
    ELSE RunListeners(RunHandler(w, cfg, Head(listeners).handler, event), cfg,
                      Tail(listeners), event)

Dispatch(w, cfg, event) ==
    RunListeners([w EXCEPT !.ws.events = Append(@, event)], cfg,
                 SelectSeq(w.ws.listeners, LAMBDA l : l.type = event.type), event)

\* The function createSafeWebSocket wraps in io: a new WebSocket, a new
\* promise, and the open and error listeners.
Connect(w) ==
    addEventListener(
        addEventListener([w EXCEPT !.ws = [NoSocket EXCEPT !.readyState = "CONNECTING"],
                                   !.promise = Pending],
                         "open", "open"),
        "error", "error")

(***************************************************************************)
(* The program: calls on an Option.                                        *)
(***************************************************************************)
NoCall == [op |-> "none"]
Identity == [x \in Data |-> x]

OptionReady == component = "Option" /\ call = NoCall

OptionStep(record) ==
    /\ call' = record
    /\ UNCHANGED <<component, opt, res, n, ios, runs, heap, safe, callerMap, socketVars>>

CallSome ==
    /\ OptionReady
    /\ \E v \in JSValues :
           OptionStep([op |-> "Some", arg |-> v, outcome |-> Return(Some(v), <<>>)])

CallNone ==
    /\ OptionReady
    /\ OptionStep([op |-> "None", outcome |-> Return(None, <<>>)])

CallIntoOption ==
    /\ OptionReady
    /\ \E v \in JSValues :
           OptionStep([op |-> "intoOption", arg |-> v,
                       outcome |-> Return(intoOption(v), <<>>)])

CallOptionIsSome ==
    /\ OptionReady
    /\ OptionStep([op |-> "Option.isSome", self |-> opt, outcome |-> Option_isSome(opt)])

CallOptionIsNone ==
    /\ OptionReady
    /\ OptionStep([op |-> "Option.isNone", self |-> opt, outcome |-> Option_isNone(opt)])

\* m.map(f), and with it m.map(identity), m.map(f).map(g), m.map(x => g(f(x)))
CallOptionMap ==
    /\ OptionReady
    /\ \E f \in [Data -> Data], g \in [Data -> Data] :
           LET r == Option_map(opt, f)
           IN  OptionStep([op |-> "Option.map", self |-> opt, f |-> f, g |-> g,
                           outcome |-> r,
                           identity |-> Option_map(opt, Identity),
                           chained |-> Option_map(r.value, g),
                           composed |-> Option_map(opt, [x \in Data |-> g[f[x]]])])

\* m.andThen(f), and with it m.andThen(f).andThen(g), m.andThen(x => f(x).andThen(g))
CallOptionAndThen ==
    /\ OptionReady
    /\ \E f \in [Data -> Options], g \in [Data -> Options] :
           LET r == Option_andThen(opt, f)
           IN  OptionStep([op |-> "Option.andThen", self |-> opt, f |-> f, g |-> g,
                           outcome |-> r,
                           chained |-> Option_andThen(r.value, g),
                           nested |-> Option_andThen(opt,
                                        [x \in Data |-> Option_andThen(f[x], g).value])])

CallOptionOrElse ==
    /\ OptionReady
    /\ \E o \in Options :
           OptionStep([op |-> "Option.orElse", self |-> opt, arg |-> o,
                       outcome |-> Option_orElse(opt, o)])

CallOptionUnwrap ==
    /\ OptionReady
    /\ OptionStep([op |-> "Option.unwrap", self |-> opt, outcome |-> Option_unwrap(opt)])

CallOptionInspect ==
    /\ OptionReady
    /\ OptionStep([op |-> "Option.inspect", self |-> opt, outcome |-> Option_inspect(opt)])

CallOptionOkOr ==
    /\ OptionReady
    /\ \E e \in Errors :
           OptionStep([op |-> "Option.okOr", self |-> opt, arg |-> e,
                       outcome |-> Option_okOr(opt, e)])

CallOptionMatch ==
    /\ OptionReady
    /\ \E someArm \in [Data -> Data], noneArm \in Data :
           OptionStep([op |-> "Option.match", self |-> opt,
                       outcome |-> Option_match(opt, someArm, noneArm)])

CallOptionCaseOf ==
    /\ OptionReady
    /\ \E someArm \in [Data -> Data], noneArm \in Data :
           OptionStep([op |-> "Option.caseOf", self |-> opt,
                       outcome |-> Option_caseOf(opt, someArm, noneArm)])

\* The program makes one call on the Option it holds.
NextOption ==
    \/ CallSome
    \/ CallNone
    \/ CallIntoOption
    \/ CallOptionIsSome
    \/ CallOptionIsNone
    \/ CallOptionMap
    \/ CallOptionAndThen
    \/ CallOptionOrElse
    \/ CallOptionUnwrap
    \/ CallOptionInspect
    \/ CallOptionOkOr
    \/ CallOptionMatch
    \/ CallOptionCaseOf

(***************************************************************************)
(* The program: calls on a Result.                                         *)
(***************************************************************************)
ResultReady == component = "Result" /\ call = NoCall

ResultStep(record) ==
    /\ call' = record
    /\ UNCHANGED <<component, opt, res, n, ios, runs, heap, safe, callerMap, socketVars>>

CallOk ==
    /\ ResultReady
    /\ \E v \in JSValues :
           ResultStep([op |-> "Ok", arg |-> v, outcome |-> Return(Ok(v), <<>>)])

CallErr ==
    /\ ResultReady
    /\ \E e \in Errors :
           ResultStep([op |-> "Err", arg |-> e, outcome |-> Return(Err(e), <<>>)])

CallResultIsOk ==
    /\ ResultReady
    /\ ResultStep([op |-> "Result.isOk", self |-> res, outcome |-> Result_isOk(res)])

CallResultIsErr ==
    /\ ResultReady
    /\ ResultStep([op |-> "Result.isErr", self |-> res, outcome |-> Result_isErr(res)])

CallResultMap ==
    /\ ResultReady
    /\ \E f \in [Data -> Data], g \in [Data -> Data] :
           LET r == Result_map(res, f)
           IN  ResultStep([op |-> "Result.map", self |-> res, f |-> f, g |-> g,
                           outcome |-> r,
                           identity |-> Result_map(res, Identity),
                           chained |-> Result_map(r.value, g),
                           composed |-> Result_map(res, [x \in Data |-> g[f[x]]])])

CallResultMapErr ==
    /\ ResultReady
    /\ \E f \in [Errors -> Errors] :
           ResultStep([op |-> "Result.mapErr", self |-> res, f |-> f,
                       outcome |-> Result_mapErr(res, f)])

CallResultAndThen ==
    /\ ResultReady
    /\ \E f \in [Data -> Results], g \in [Data -> Results] :
           LET r == Result_andThen(res, f)
           IN  ResultStep([op |-> "Result.andThen", self |-> res, f |-> f, g |-> g,
                           outcome |-> r,
                           chained |-> Result_andThen(r.value, g),
                           nested |-> Result_andThen(res,
                                        [x \in Data |-> Result_andThen(f[x], g).value])])

CallResultOrElse ==
    /\ ResultReady
    /\ \E f \in [Errors -> Results] :
           ResultStep([op |-> "Result.orElse", self |-> res, f |-> f,
                       outcome |-> Result_orElse(res, f)])

CallResultUnwrap ==
    /\ ResultReady
    /\ ResultStep([op |-> "Result.unwrap", self |-> res, outcome |-> Result_unwrap(res)])

CallResultUnwrapErr ==
    /\ ResultReady
    /\ ResultStep([op |-> "Result.unwrapErr", self |-> res,
                   outcome |-> Result_unwrapErr(res)])

CallResultInspect ==
    /\ ResultReady
    /\ ResultStep([op |-> "Result.inspect", self |-> res, outcome |-> Result_inspect(res)])

CallResultInspectErr ==
    /\ ResultReady
    /\ ResultStep([op |-> "Result.inspectErr", self |-> res,
                   outcome |-> Result_inspectErr(res)])

CallResultCaseOf ==
    /\ ResultReady
    /\ \E okArm \in [Data -> Data], errArm \in [Errors -> Data] :
           ResultStep([op |-> "Result.caseOf", self |-> res,
                       outcome |-> Result_caseOf(res, okArm, errArm)])

\* The program makes one call on the Result it holds.
NextResult ==
    \/ CallOk
    \/ CallErr
    \/ CallResultIsOk
    \/ CallResultIsErr
    \/ CallResultMap
    \/ CallResultMapErr
    \/ CallResultAndThen
    \/ CallResultOrElse
    \/ CallResultUnwrap
    \/ CallResultUnwrapErr
    \/ CallResultInspect
    \/ CallResultInspectErr
    \/ CallResultCaseOf

(***************************************************************************)
(* The program: building and running IOs over the counter n.               *)
(***************************************************************************)
MaxIO == 3
MaxRuns == 2

IOReady == component = "IO"

IOStep(op, self, fn, r) ==
    /\ n' = r.n
    /\ call' = [op |-> op, self |-> self, fn |-> fn, before |-> n,
                outcome |-> [kind |-> r.kind,
                             ret |-> IF op = "UNSAFE_run" THEN r.ret ELSE Len(ios) + 1,
                             log |-> r.log]]
    /\ UNCHANGED <<component, opt, res, heap, safe, callerMap, socketVars>>

\* eff = io(fn)
CallIo ==
    /\ IOReady
    /\ Len(ios) < MaxIO
    /\ \E fn \in UserThunks :
        LET r == io(fn, n)
        IN  /\ ios' = Append(ios, r.ret)
            /\ runs' = runs
            /\ IOStep("io", 0, fn.kind, r)

CallIOMap ==
    /\ IOReady
    /\ Len(ios) < MaxIO
    /\ \E self \in DOMAIN ios, mapper \in Mappers :
        LET r == IO_map(ios, self, mapper, n)
        IN  /\ ios' = Append(ios, r.ret)
            /\ runs' = runs
            /\ IOStep("map", self, mapper, r)

CallIOAndThen ==
    /\ IOReady
    /\ Len(ios) < MaxIO
    /\ \E self \in DOMAIN ios, chainer \in Chainers :
        LET r == IO_andThen(ios, self, chainer, n)
        IN  /\ ios' = Append(ios, r.ret)
            /\ runs' = runs
            /\ IOStep("andThen", self, chainer, r)

CallUnsafeRun ==
    /\ IOReady
    /\ Len(runs) < MaxRuns
    /\ \E self \in DOMAIN ios :
        LET r == UNSAFE_run(ios, self, n)
        IN  /\ ios' = ios
            /\ runs' = Append(runs, self)
            /\ IOStep("UNSAFE_run", self, "", r)

NextIO ==
    \/ CallIo
    \/ CallIOMap
    \/ CallIOAndThen
    \/ CallUnsafeRun

(***************************************************************************)
(* The program: calls on SafeMaps.                                         *)
(***************************************************************************)
MaxSafe == 2
MaxSeeded == 1

\* What a reader of a SafeMap sees: has and get at every key.
Observe(h, self) ==
    [k \in Keys |-> [has |-> SafeMap_has(h, self, k).value,
                     get |-> SafeMap_get(h, self, k).value]]
Observations == [i \in DOMAIN safe |-> Observe(heap, safe[i])]

\* The values the program stores, and the Map it seeds a SafeMap with.
MapValues == {JSZero, JSUndefined}
Seeds == {<<Entry("b", JSNull), Entry("a", JSZero)>>}

\* The calls that only read a SafeMap.
Reads == {"get", "has", "entries", "keys", "values"}

\* The association a SafeMap holds: its _map's entries, in the Map's order.
Contents(h, self) ==
    LET entries == Compact(h[self._map])
    IN  [e \in DOMAIN entries |-> <<entries[e].key, entries[e].value>>]

SafeMapReady == component \in {"SafeMap", "Seed"} /\ call.op \notin Reads

\* The Maps that stay referenced: those of the SafeMaps held, and the Map the
\* program keeps for itself.
Roots(s) == IF callerMap = NoMap THEN s ELSE Append(s, [_map |-> callerMap])
OwnContents(h) == IF callerMap = NoMap THEN <<>> ELSE Contents(h, [_map |-> callerMap])

\* s1: the SafeMaps the program holds after the call; result: what it returned.
SafeMapStep(op, self, key, value, r, s1, result) ==
    /\ heap' = CollectHeap(r.heap, Roots(s1))
    /\ safe' = SubSeq(CollectRefs(Roots(s1)), 1, Len(s1))
    /\ callerMap' = IF callerMap = NoMap THEN NoMap
                    ELSE CollectRefs(Roots(s1))[Len(s1) + 1]._map
    /\ call' = [op |-> op, self |-> self, key |-> key, value |-> value,
                before |-> IF op \in Reads THEN <<>> ELSE Observations,
                was |-> IF op \in Reads \/ self = 0 THEN <<>> ELSE Contents(heap, safe[self]),
                listed |-> IF op \in Reads THEN <<>> ELSE Contents(r.heap, r.value),
                own |-> OwnContents(heap),
                held |-> IF Len(s1) > Len(safe) THEN Len(s1) ELSE 0,
                outcome |-> [kind |-> r.kind, value |-> result, calls |-> r.calls]]
    /\ UNCHANGED <<component, opt, res, n, ios, runs, socketVars>>

\* The program keeps the SafeMap a call returned, while it holds fewer than
\* MaxSafe, or lets it go; either way the call records what the new SafeMap
\* answered when it was returned.
Keep(r, kept) == IF kept THEN Append(safe, r.value) ELSE safe
Capacity == IF component = "Seed" THEN MaxSeeded ELSE MaxSafe
MayKeep == {k \in BOOLEAN : k => Len(safe) < Capacity}

CallCreateSafeMap ==
    /\ SafeMapReady
    /\ Len(safe) < Capacity
    /\ \/ LET r == createSafeMap(heap, NoMap)
          IN  SafeMapStep("createSafeMap", 0, "", "", r, Keep(r, TRUE),
                          Observe(r.heap, r.value))
       \/ \E seed \in Seeds :
            /\ callerMap = NoMap
            /\ LET h1 == Append(heap, seed)
                   r == createSafeMap(h1, Len(h1))
               IN  SafeMapStep("createSafeMap", 0, "", "seeded", r, Keep(r, TRUE),
                               Observe(r.heap, r.value))

CallGet ==
    /\ SafeMapReady
    /\ \E self \in DOMAIN safe, key \in Keys :
           LET r == SafeMap_get(heap, safe[self], key)
           IN  SafeMapStep("get", self, key, "", r, safe, r.value)

CallHas ==
    /\ SafeMapReady
    /\ \E self \in DOMAIN safe, key \in Keys :
           LET r == SafeMap_has(heap, safe[self], key)
           IN  SafeMapStep("has", self, key, "", r, safe, r.value)

CallSet ==
    /\ SafeMapReady
    /\ \E self \in DOMAIN safe, key \in Keys, value \in MapValues, kept \in MayKeep :
           LET r == SafeMap_set(heap, safe[self], key, value)
           IN  SafeMapStep("set", self, key, value, r, Keep(r, kept),
                           Observe(r.heap, r.value))

CallClear ==
    /\ SafeMapReady
    /\ \E self \in DOMAIN safe, kept \in MayKeep :
           LET r == SafeMap_clear(heap, safe[self])
           IN  SafeMapStep("clear", self, "", "", r, Keep(r, kept),
                           Observe(r.heap, r.value))

CallDelete ==
    /\ SafeMapReady
    /\ \E self \in DOMAIN safe, key \in Keys, kept \in MayKeep :
           LET r == SafeMap_delete(heap, safe[self], key)
           IN  SafeMapStep("delete", self, key, "", r, Keep(r, kept),
                           Observe(r.heap, r.value))

CallEntries ==
    /\ SafeMapReady
    /\ \E self \in DOMAIN safe :
           LET r == SafeMap_entries(heap, safe[self])
           IN  SafeMapStep("entries", self, "", "", r, safe, r.value)

CallKeys ==
    /\ SafeMapReady
    /\ \E self \in DOMAIN safe :
           LET r == SafeMap_keys(heap, safe[self])
           IN  SafeMapStep("keys", self, "", "", r, safe, r.value)

CallValues ==
    /\ SafeMapReady
    /\ \E self \in DOMAIN safe :
           LET r == SafeMap_values(heap, safe[self])
           IN  SafeMapStep("values", self, "", "", r, safe, r.value)

CallForEach ==
    /\ SafeMapReady
    /\ \E self \in DOMAIN safe, fn \in Callbacks :
           LET r == SafeMap_forEach(heap, safe[self], fn)
           IN  SafeMapStep("forEach", self, fn.key, fn.kind, r, safe,
                           CollectRefs(<<r.value>> \o safe)[1])

\* createSafeMap(existingMap), existingMap being the Map the program keeps.
CallCreateFromOwnMap ==
    /\ SafeMapReady
    /\ callerMap # NoMap
    /\ Len(safe) < Capacity
    /\ LET r == createSafeMap(heap, callerMap)
       IN  SafeMapStep("createSafeMap", 0, "", "own", r, Keep(r, TRUE),
                       Observe(r.heap, r.value))

\* The program changes its own Map: existingMap.set, delete or clear.
ProgramChangesOwnMap ==
    /\ SafeMapReady
    /\ callerMap # NoMap
    /\ \E fn \in Callbacks :
           /\ fn.kind # "noop"
           /\ heap' = [heap EXCEPT ![callerMap] = Compact(RunCallback(fn, heap[callerMap]))]
           /\ call' = [op |-> "Map." \o fn.kind, self |-> 0, key |-> fn.key,
                       value |-> fn.value, before |-> Observations, was |-> <<>>,
                       listed |-> <<>>, own |-> OwnContents(heap), held |-> 0,
                       outcome |-> [kind |-> "return", value |-> JSUndefined,
                                    calls |-> <<>>]]
    /\ UNCHANGED <<component, opt, res, n, ios, runs, safe, callerMap, socketVars>>

\* The program builds and changes SafeMaps, and ends with a read of one.
NextSafeMap ==
    \/ CallCreateSafeMap
    \/ CallGet
    \/ CallHas
    \/ CallSet
    \/ CallClear
    \/ CallDelete
    \/ CallEntries
    \/ CallKeys
    \/ CallValues
    \/ CallForEach

(***************************************************************************)
(* The program: one call of a SafeJSON parser.                             *)
(***************************************************************************)
JSONReady == component = "JSON" /\ call = NoCall

JSONStep(record) ==
    /\ call' = record
    /\ UNCHANGED <<component, opt, res, n, ios, runs, heap, safe, callerMap, socketVars>>

CallParseJSON ==
    /\ JSONReady
    /\ \E json \in Raws :
           JSONStep([op |-> "parseJSON", json |-> json, outcome |-> parseJSON(json)])

CallParseWithSchema ==
    /\ JSONReady
    /\ \E schema \in Schemas, obj \in JSONValues :
           JSONStep([op |-> "parseWithSchema", schema |-> schema, obj |-> obj,
                     outcome |-> parseWithSchema(schema, obj)])

CallParseJSONWithSchema ==
    /\ JSONReady
    /\ \E schema \in Schemas, json \in Raws :
           JSONStep([op |-> "parseJSONWithSchema", schema |-> schema, json |-> json,
                     outcome |-> parseJSONWithSchema(schema, json)])

\* parseJSON(json, schema) of the earlier SafeJSON
CallParseJSONSchema ==
    /\ JSONReady
    /\ \E schema \in Schemas, json \in Raws :
           JSONStep([op |-> "parseJSON(json, schema)", schema |-> schema, json |-> json,
                     outcome |-> parseJSON_schema(json, schema)])

NextJSON ==
    \/ CallParseJSON
    \/ CallParseWithSchema
    \/ CallParseJSONWithSchema
    \/ CallParseJSONSchema

(***************************************************************************)
(* The program and its WebSocket: the IO of createSafeWebSocket is run     *)
(* once, and the WebSocket then fires at most MaxEvents events.            *)
(***************************************************************************)
MaxEvents == 4

\* The schemas and the messages the connection is tried with.
SocketSchemas == {{JSONNumber}, {JSONNumber, JSONString}}
SocketMessages == {"{a:1", "1e0", "\"a\""}
Configs == [version : Versions, schema : SocketSchemas]

World == [ws |-> ws, promise |-> promise, heard |-> heard]

SocketStep(w) ==
    /\ ws' = w.ws
    /\ promise' = w.promise
    /\ heard' = w.heard
    /\ UNCHANGED <<component, opt, res, call, n, ios, runs, heap, safe, callerMap, config>>

Fires(event) ==
    /\ component = "Socket"
    /\ Len(ws.events) < MaxEvents
    /\ SocketStep(Dispatch(World, config, event))

\* createSafeWebSocket(...).UNSAFE_run()
RunCreateSafeWebSocket ==
    /\ component = "Socket"
    /\ ws.readyState = "none"
    /\ SocketStep(Connect(World))

\* The connection is established: open fires, once.
SocketOpens ==
    /\ ws.readyState = "CONNECTING"
    /\ component = "Socket"
    /\ Len(ws.events) < MaxEvents
    /\ SocketStep(Dispatch([World EXCEPT !.ws.readyState = "OPEN"], config,
                           Event("open", JSUndefined)))

SocketErrs ==
    /\ ws.readyState \in {"CONNECTING", "OPEN"}
    /\ Fires(Event("error", JSUndefined))

SocketReceives ==
    /\ ws.readyState = "OPEN"
    /\ \E data \in SocketMessages : Fires(Event("message", data))

SocketCloses ==
    /\ ws.readyState \in {"CONNECTING", "OPEN"}
    /\ component = "Socket"
    /\ Len(ws.events) < MaxEvents
    /\ SocketStep(Dispatch([World EXCEPT !.ws.readyState = "CLOSED"], config,
                           Event("close", JSUndefined)))

\* safeWebSocket.listen(listener) of the first version, on the SafeWebSocket
\* the promise resolved with.
CallListen ==
    /\ component = "Socket"
    /\ config.version = "first"
    /\ promise.state = "fulfilled" /\ isOk(promise.value)
    /\ \A i \in DOMAIN ws.listeners : ws.listeners[i].handler # "listen"
    /\ SocketStep(addEventListener(World, "message", "listen"))

NextSocket ==
    \/ RunCreateSafeWebSocket
    \/ SocketOpens
    \/ SocketErrs
    \/ SocketReceives
    \/ SocketCloses
    \/ CallListen

(***************************************************************************)
(* Specifications: one per part of the library; Spec is the four core      *)
(* types together.                                                         *)
(***************************************************************************)
NoConfig == [version |-> "none", schema |-> {}]
Unconnected == ws = NoSocket /\ promise = NoPromise /\ heard = <<>>

Idle ==
    /\ call = NoCall
    /\ n = 0
    /\ ios = <<>>
    /\ runs = <<>>
    /\ heap = <<>>
    /\ safe = <<>>
    /\ callerMap = NoMap
    /\ Unconnected
    /\ config = NoConfig

InitOption == component = "Option" /\ opt \in Options /\ res = Ok(JSZero) /\ Idle
InitResult == component = "Result" /\ opt = None /\ res \in Results /\ Idle
InitIO == component = "IO" /\ opt = None /\ res = Ok(JSZero) /\ Idle
InitSafeMap == component = "SafeMap" /\ opt = None /\ res = Ok(JSZero) /\ Idle

InitJSON == component = "JSON" /\ opt = None /\ res = Ok(JSZero) /\ Idle

\* createSafeWebSocket has been called and has returned its IO, not yet run.
InitSocket ==
    /\ component = "Socket"
    /\ opt = None /\ res = Ok(JSZero)
    /\ call = NoCall /\ n = 0 /\ ios = <<>> /\ runs = <<>>
    /\ heap = <<>> /\ safe = <<>> /\ callerMap = NoMap
    /\ Unconnected
    /\ config \in Configs

\* The program has built a Map of its own, to seed SafeMaps with.
InitSeed ==
    /\ component = "Seed"
    /\ opt = None /\ res = Ok(JSZero)
    /\ call = NoCall /\ n = 0 /\ ios = <<>> /\ runs = <<>>
    /\ safe = <<>>
    /\ \E existing \in Seeds : heap = <<existing>>
    /\ callerMap = 1
    /\ Unconnected
    /\ config = NoConfig

Init == InitOption \/ InitResult \/ InitIO \/ InitSafeMap

Next == NextOption \/ NextResult \/ NextIO \/ NextSafeMap

NextMonads == NextOption \/ NextResult

NextSeed == NextSafeMap \/ CallCreateFromOwnMap \/ ProgramChangesOwnMap

Spec == Init /\ [][Next]_vars
SpecMonads == (InitOption \/ InitResult) /\ [][NextMonads]_vars
SpecOption == InitOption /\ [][NextOption]_vars
SpecResult == InitResult /\ [][NextResult]_vars
SpecIO == InitIO /\ [][NextIO]_vars
SpecSafeMap == InitSafeMap /\ [][NextSafeMap]_vars
SpecSeed == InitSeed /\ [][NextSeed]_vars
SpecJSON == InitJSON /\ [][NextJSON]_vars
SpecSocket == InitSocket /\ [][NextSocket]_vars

(***************************************************************************)
(* Properties.                                                             *)
(***************************************************************************)

\* C2: io(fn), map and andThen never invoke the wrapped computation: they
\* leave n alone and invoke nothing, so n is 0 until the first run.  Each run
\* of an IO made by io(counter) invokes counter exactly once, and returns the
\* n it leaves; with only such runs so far, the k-th returns k and leaves n = k.
Building == {"io", "map", "andThen"}
OnlyCounterRan == \A i \in DOMAIN runs : ios[runs[i]]._fn.kind = "counter"
IOInvokedOnlyByRun ==
    /\ call.op \in Building => n = call.before /\ call.outcome.log = <<>>
    /\ runs = <<>> => n = 0
    /\ (call.op = "UNSAFE_run" /\ ios[call.self]._fn.kind = "counter") =>
            /\ n = call.before + 1
            /\ call.outcome.ret = n
            /\ call.outcome.log = <<Invoke("counter", 0)>>
    /\ (call.op = "UNSAFE_run" /\ OnlyCounterRan) =>
            /\ call.outcome.ret = Len(runs)
            /\ n = Len(runs)

\* The second run of eff = io(counter), after a map or andThen was built from it.
IOSecondRunReached ==
    /\ call.op = "UNSAFE_run"
    /\ OnlyCounterRan
    /\ Len(runs) = 2
    /\ runs[1] = runs[2]
    /\ \E i \in DOMAIN ios : ios[i]._fn.kind \in {"map", "andThen"} /\ ios[i]._fn.self = runs[1]
    /\ call.outcome.ret = 2
    /\ n = 2

\* C3: a run of c = a.andThen(f).map(g) invokes a's computation, then f on its
\* result, then the computation of the IO f returned, then g, each once and in
\* that order, and returns g's result; this on every run, and building a, the
\* andThen and the map invokes nothing.
IsChain(c) ==
    /\ ios[c]._fn.kind = "map"
    /\ ios[ios[c]._fn.self]._fn.kind = "andThen"
    /\ ios[ios[ios[c]._fn.self]._fn.self]._fn.kind \in {"counter", "const"}
ChainTrace(c, before) ==
    LET g == ios[c]._fn.fn
        b == ios[c]._fn.self
        f == ios[b]._fn.fn
        a == ios[b]._fn.self
        counts == ios[a]._fn.kind = "counter"
        first == IF counts THEN before + 1 ELSE 1
        second == IF f = "chainSucc" THEN first + 1 ELSE 2 * first
        third == IF g = "inc" THEN second + 1 ELSE 2 * second
    IN  [log |-> << IF counts THEN Invoke("counter", 0) ELSE Invoke("const", 1),
                    Invoke(f, first),
                    Invoke(IF f = "chainSucc" THEN "succ" ELSE "twice", first),
                    Invoke(g, second) >>,
         ret |-> third]
IORunsChainInOrder ==
    /\ call.op \in Building => call.outcome.log = <<>>
    /\ (call.op = "UNSAFE_run" /\ IsChain(call.self)) =>
            /\ call.outcome.log = ChainTrace(call.self, call.before).log
            /\ call.outcome.ret = ChainTrace(call.self, call.before).ret

\* c = io(counter).andThen(f).map(g) run for the second time.
IOChainRunTwice ==
    /\ call.op = "UNSAFE_run"
    /\ IsChain(call.self)
    /\ ios[ios[ios[call.self]._fn.self]._fn.self]._fn.kind = "counter"
    /\ Len(runs) = 2
    /\ runs[1] = call.self
    /\ Len(call.outcome.log) = 4
    /\ call.before = 1

\* C4: Some(x).andThen(f) is f(x); None().andThen(f) is None and f is not
\* invoked; m.andThen(f).andThen(g) is m.andThen(x => f(x).andThen(g)).
OptionAndThenLaws ==
    call.op = "Option.andThen" =>
        /\ call.outcome.kind = "return"
        /\ isSome(call.self) => call.outcome.value = call.f[call.self.data]
        /\ isNone(call.self) => call.outcome.value = None /\ call.outcome.calls = <<>>
        /\ call.chained.value = call.nested.value

\* Some(x).andThen(f).andThen(g) with f(x) a Some and g of it a Some.
OptionAndThenChained ==
    /\ call.op = "Option.andThen"
    /\ isSome(call.self)
    /\ isSome(call.outcome.value)
    /\ isSome(call.chained.value)
    /\ call.chained.value # call.outcome.value
    /\ call.outcome.value # call.self

\* C5: Ok(x).andThen(f) is f(x); Err(e).andThen(f) is Err(e) and f is not
\* invoked; m.andThen(f).andThen(g) is m.andThen(x => f(x).andThen(g)).
ResultAndThenLaws ==
    call.op = "Result.andThen" =>
        /\ call.outcome.kind = "return"
        /\ isOk(call.self) => call.outcome.value = call.f[call.self.data]
        /\ isErr(call.self) =>
                call.outcome.value = Err(call.self.error) /\ call.outcome.calls = <<>>
        /\ call.chained.value = call.nested.value

\* Ok(x).andThen(f).andThen(g) with f(x) an Ok and g of it an Err.
ResultAndThenChained ==
    /\ call.op = "Result.andThen"
    /\ isOk(call.self)
    /\ isOk(call.outcome.value)
    /\ isErr(call.chained.value)
    /\ call.outcome.value # call.self

\* C6: on Option and on Result, m.map(identity) is m and m.map(f).map(g) is
\* m.map(x => g(f(x))); a Some (an Ok) maps to a Some (an Ok) of f's value, also
\* when that value is null or undefined.
MapFunctorLaws ==
    /\ call.op = "Option.map" =>
        /\ call.identity.value = call.self
        /\ call.chained.value = call.composed.value
        /\ isSome(call.self) => call.outcome.value = Some(call.f[call.self.data])
    /\ call.op = "Result.map" =>
        /\ call.identity.value = call.self
        /\ call.chained.value = call.composed.value
        /\ isOk(call.self) => call.outcome.value = Ok(call.f[call.self.data])

\* Some(null).map(f).map(g) with f yielding undefined and g yielding 0.
MapOverNullish ==
    /\ call.op = "Option.map"
    /\ call.self = Some(JSNull)
    /\ call.outcome.value = Some(JSUndefined)
    /\ call.chained.value = Some(JSZero)

\* C7: None().unwrap() throws UnwrapOnNone, Err(e).unwrap() throws UnwrapOnErr,
\* Ok(x).unwrapErr() throws UnwrapOnOk, three distinct faults; Some(x).unwrap()
\* and Ok(x).unwrap() return x and Err(e).unwrapErr() returns e.
UnwrapFaults ==
    /\ Cardinality({UnwrapOnNone, UnwrapOnErr, UnwrapOnOk}) = 3
    /\ call.op = "Option.unwrap" =>
            call.outcome = IF isNone(call.self) THEN Throw(UnwrapOnNone)
                           ELSE Return(call.self.data, <<>>)
    /\ call.op = "Result.unwrap" =>
            call.outcome = IF isErr(call.self) THEN Throw(UnwrapOnErr)
                           ELSE Return(call.self.data, <<>>)
    /\ call.op = "Result.unwrapErr" =>
            call.outcome = IF isOk(call.self) THEN Throw(UnwrapOnOk)
                           ELSE Return(call.self.error, <<>>)

\* Ok(x).unwrapErr() has thrown.
UnwrapErrOnOkThrown ==
    /\ call.op = "Result.unwrapErr"
    /\ isOk(call.self)
    /\ call.outcome.kind = "throw"

\* C8: intoOption(v) is None exactly when v is null or undefined, and
\* Some(v) for every other v, the falsy 0, "" and false included.
IntoOptionNullish ==
    call.op = "intoOption" =>
        /\ call.outcome.value = None <=> call.arg \in {JSNull, JSUndefined}
        /\ call.arg \notin {JSNull, JSUndefined} => call.outcome.value = Some(call.arg)

\* intoOption(false) has returned Some(false).
IntoOptionOfFalse ==
    /\ call.op = "intoOption"
    /\ call.arg = JSFalse
    /\ call.outcome.value = Some(JSFalse)

\* C1: a set, delete or clear on any SafeMap leaves has and get of every
\* SafeMap the program already holds as they were, and after
\* m2 = m1.set(k, v), m2.get(k) holds v.
PersistentMapIsolation ==
    call.op \in {"set", "delete", "clear"} =>
        /\ \A i \in DOMAIN call.before :
              Observe(heap, safe[i]) = call.before[i]
        /\ call.op = "set" => call.outcome.value[call.key].get = Some(call.value)

\* The part of C1 about the instances held before the call: set, delete and
\* clear leave has and get of each of them as they were, and the SafeMap
\* that set returns has the key.
HeldInstancesUnchanged ==
    call.op \in {"set", "delete", "clear"} =>
        /\ \A i \in DOMAIN call.before :
              Observe(heap, safe[i]) = call.before[i]
        /\ call.op = "set" => call.outcome.value[call.key].has

\* m2 = m1.set(k, 0) on an m1 without k: m1 still lacks k, m2.get(k) is Some(0).
SetLeftReceiverWithoutKey ==
    /\ call.op = "set"
    /\ call.value = JSZero
    /\ ~call.before[call.self][call.key].has
    /\ ~Observe(heap, safe[call.self])[call.key].has
    /\ call.outcome.value[call.key].get = Some(JSZero)

\* The calls C9 is about: every operation but the three unwraps (and the
\* running of an IO, which is not a construction).
Unwraps == {"Option.unwrap", "Result.unwrap", "Result.unwrapErr"}
TotalOperations ==
    {"Some", "None", "intoOption", "Option.isSome", "Option.isNone", "Option.map",
     "Option.andThen", "Option.orElse", "Option.inspect", "Option.okOr",
     "Option.match", "Option.caseOf",
     "Ok", "Err", "Result.isOk", "Result.isErr", "Result.map", "Result.mapErr",
     "Result.andThen", "Result.orElse", "Result.inspect", "Result.inspectErr",
     "Result.caseOf",
     "io", "map", "andThen",
     "createSafeMap", "get", "has", "set", "clear", "delete", "entries", "keys",
     "values", "forEach"}

\* C9: every Option, Result, IO-construction and SafeMap operation other
\* than Option.unwrap, Result.unwrap and Result.unwrapErr returns, and never
\* throws, whatever the receiver and the arguments.
OperationsAreTotal ==
    /\ call.op \in TotalOperations \cup Unwraps \cup {"UNSAFE_run", "none"}
    /\ call.op \in TotalOperations => call.outcome.kind = "return"

\* None().okOr(e) has returned Err(e).
OkOrOnNoneReturned ==
    /\ call.op = "Option.okOr"
    /\ isNone(call.self)
    /\ call.outcome = Return(Err(call.arg), <<>>)

\* C10: whatever fn does with the value, key and map it is handed,
\* forEach(fn) leaves has and get of the receiver as they were before the
\* call, and returns the receiver.
ForEachKeepsReceiver ==
    call.op = "forEach" =>
        /\ Observe(heap, safe[call.self]) = call.before[call.self]
        /\ call.outcome.value = safe[call.self]

\* The part of C10 that does not depend on fn: forEach returns the receiver.
ForEachReturnsReceiver ==
    call.op = "forEach" => call.outcome.value = safe[call.self]

\* forEach has run a callback that clears the map it is handed, on a
\* SafeMap that had a key.
ForEachClearedReceiver ==
    /\ call.op = "forEach"
    /\ call.value = "clear"
    /\ \E k \in Keys : call.before[call.self][k].has
    /\ \A k \in Keys : ~Observe(heap, safe[call.self])[k].has

ResultMapNoOps ==
    /\ call.op = "Result.map" =>
        IF isErr(call.self)
        THEN call.outcome.value = call.self /\ call.outcome.calls = <<>>
        ELSE /\ call.outcome.value = Ok(call.f[call.self.data])
             /\ call.outcome.calls = <<Invoke("mapper", call.self.data)>>
    /\ call.op = "Result.mapErr" =>
        IF isOk(call.self)
        THEN call.outcome.value = call.self /\ call.outcome.calls = <<>>
        ELSE /\ call.outcome.value = Err(call.f[call.self.error])
             /\ call.outcome.calls = <<Invoke("mapper", call.self.error)>>

\* Err(e).mapErr(f) with f(e) other than e has returned Err(f(e)).
MapErrMappedTheError ==
    /\ call.op = "Result.mapErr"
    /\ isErr(call.self)
    /\ call.f[call.self.error] # call.self.error
    /\ call.outcome.value = Err(call.f[call.self.error])

\* C13: orElse calls its callback on the empty or failed side only:
\* Some(x).orElse(f) and Ok(x).orElse(f) return the receiver and do not
\* call f; None().orElse(f) returns f() and Err(e).orElse(f) returns f(e),
\* f called once.
OrElseCallsOnEmptySideOnly ==
    /\ call.op = "Option.orElse" =>
        IF isSome(call.self)
        THEN call.outcome.value = call.self /\ call.outcome.calls = <<>>
        ELSE /\ call.outcome.value = call.arg
             /\ call.outcome.calls = <<Invoke("chainer", JSUndefined)>>
    /\ call.op = "Result.orElse" =>
        IF isOk(call.self)
        THEN call.outcome.value = call.self /\ call.outcome.calls = <<>>
        ELSE /\ call.outcome.value = call.f[call.self.error]
             /\ call.outcome.calls = <<Invoke("chainer", call.self.error)>>

\* Err(e).orElse(f) has returned f(e), an Ok.
OrElseRecoveredFromErr ==
    /\ call.op = "Result.orElse"
    /\ isErr(call.self)
    /\ isOk(call.f[call.self.error])
    /\ call.outcome.value = call.f[call.self.error]
    /\ Len(call.outcome.calls) = 1

\* C14: no Option or Result operation changes the tag or payload of its
\* receiver; inspect and inspectErr return the receiver, having called fn
\* once with the payload when the variant matches (Some or Ok for inspect,
\* Err for inspectErr) and not at all otherwise.
InspectReturnsReceiver ==
    /\ (component = "Option" /\ "self" \in DOMAIN call) => opt = call.self
    /\ (component = "Result" /\ "self" \in DOMAIN call) => res = call.self
    /\ call.op = "Option.inspect" =>
        /\ call.outcome.value = call.self
        /\ call.outcome.calls =
              IF isSome(call.self) THEN <<Invoke("fn", call.self.data)>> ELSE <<>>
    /\ call.op = "Result.inspect" =>
        /\ call.outcome.value = call.self
        /\ call.outcome.calls =
              IF isOk(call.self) THEN <<Invoke("fn", call.self.data)>> ELSE <<>>
    /\ call.op = "Result.inspectErr" =>
        /\ call.outcome.value = call.self
        /\ call.outcome.calls =
              IF isErr(call.self) THEN <<Invoke("fn", call.self.error)>> ELSE <<>>

\* Err(e).inspectErr(fn) has called fn(e) and returned Err(e).
InspectErrSawTheError ==
    /\ call.op = "Result.inspectErr"
    /\ isErr(call.self)
    /\ call.outcome = Return(res, <<Invoke("fn", res.error)>>)

\* What C15 expects of a listing (a sequence of <<key, value>>): set keeps
\* the place of a key already listed and lists a new key last; delete drops
\* the key.
KeysOf(listing) == [i \in DOMAIN listing |-> listing[i][1]]
ValuesOf(listing) == [i \in DOMAIN listing |-> listing[i][2]]
Upsert(listing, key, value) ==
    IF \E i \in DOMAIN listing : listing[i][1] = key
    THEN [i \in DOMAIN listing |-> IF listing[i][1] = key THEN <<key, value>> ELSE listing[i]]
    ELSE Append(listing, <<key, value>>)
Without(listing, key) == SelectSeq(listing, LAMBDA e : e[1] # key)
Visits(listing) == [i \in DOMAIN listing |-> Invoke("fn", <<listing[i][2], listing[i][1]>>)]

\* The mutators and the readers list what C15 says.
ListsInInsertionOrder ==
    /\ \A i \in DOMAIN safe : \A x, y \in DOMAIN Contents(heap, safe[i]) :
          Contents(heap, safe[i])[x][1] = Contents(heap, safe[i])[y][1] => x = y
    /\ call.op = "createSafeMap" =>
          IF call.value = "seeded"
          THEN \E seed \in Seeds :
                  call.listed = [i \in DOMAIN seed |-> <<seed[i].key, seed[i].value>>]
          ELSE call.listed = <<>>
    /\ call.op = "set" => call.listed = Upsert(call.was, call.key, call.value)
    /\ call.op = "delete" => call.listed = Without(call.was, call.key)
    /\ call.op = "clear" => call.listed = <<>>
    /\ call.op = "entries" => call.outcome.value = Contents(heap, safe[call.self])
    /\ call.op = "keys" => call.outcome.value = KeysOf(Contents(heap, safe[call.self]))
    /\ call.op = "values" => call.outcome.value = ValuesOf(Contents(heap, safe[call.self]))
    /\ call.op \in {"get", "has"} => call.was = <<>>

\* C15: after any sequence of set, delete and clear from an empty or seeded
\* SafeMap, keys, entries, values and forEach yield the keys set or seeded
\* and not since deleted or cleared, each once with its latest value, in
\* insertion order (a key set again keeps its place, a key deleted and set
\* again goes last); no other operation, forEach included, removes a key.
IterationFollowsInsertionOrder ==
    /\ ListsInInsertionOrder
    /\ call.op = "forEach" =>
          /\ call.outcome.calls = Visits(call.was)
          /\ call.listed = call.was

\* The part of C15 that holds: as C15, with forEach given a callback that
\* leaves the map it is handed alone.
InsertionOrderUnderInertCallback ==
    /\ ListsInInsertionOrder
    /\ (call.op = "forEach" /\ call.value = "noop") =>
          /\ call.outcome.calls = Visits(call.was)
          /\ call.listed = call.was

\* forEach, given a callback that clears the map it is handed, has visited
\* one entry of two and left the receiver empty.
ForEachStoppedAfterClear ==
    /\ call.op = "forEach"
    /\ call.value = "clear"
    /\ Len(call.was) = 2
    /\ Len(call.outcome.calls) = 1
    /\ call.listed = <<>>

\* The calls the program makes on its own Map, and those it makes on a SafeMap.
OwnMapCalls == {"Map.set", "Map.delete", "Map.clear"}
SafeMapCalls ==
    {"createSafeMap", "get", "has", "set", "clear", "delete", "entries", "keys",
     "values", "forEach"}

\* C16: createSafeMap(seed) holds exactly the seed's entries (none when the
\* seed is omitted); a later change of the seed by the program changes no
\* SafeMap's has or get, and no SafeMap operation changes the seed.
SeedIsCopied ==
    /\ (call.op = "createSafeMap" /\ call.value = "own") => call.listed = call.own
    /\ (call.op = "createSafeMap" /\ call.value = "") => call.listed = <<>>
    /\ call.op \in OwnMapCalls => Observations = call.before
    /\ call.op \in SafeMapCalls => OwnContents(heap) = call.own

\* The program has cleared the Map it seeded a SafeMap with, and the SafeMap
\* still holds what the Map held.
SeedClearedSafeMapIntact ==
    /\ call.op = "Map.clear"
    /\ call.own # <<>>
    /\ OwnContents(heap) = <<>>
    /\ \E i \in DOMAIN safe : Contents(heap, safe[i]) = call.own

\* C17: on every SafeMap and at every key, get is a Some exactly when has
\* is true, and its payload is then the value most recently set for the key,
\* null and undefined included.
GetIsSomeExactlyWhenHas ==
    /\ \A i \in DOMAIN safe : \A k \in Keys :
          Observe(heap, safe[i])[k].has <=> isSome(Observe(heap, safe[i])[k].get)
    /\ call.op = "set" =>
          call.outcome.value[call.key] = [has |-> TRUE, get |-> Some(call.value)]
    /\ call.op = "delete" =>
          call.outcome.value[call.key] = [has |-> FALSE, get |-> None]

\* The part of C17 that holds: get is a Some exactly when the key is
\* associated with a value other than null and undefined, and its payload
\* is then that value; has is true exactly when the key is associated.
GetIsSomeWhenValueNotNullish ==
    \A i \in DOMAIN safe : \A k \in Keys :
        LET listing == Contents(heap, safe[i])
            at == {x \in DOMAIN listing : listing[x][1] = k}
            seen == Observe(heap, safe[i])[k]
        IN  /\ seen.has <=> at # {}
            /\ seen.get = IF \E x \in at : listing[x][2] \notin {JSNull, JSUndefined}
                          THEN Some(listing[CHOOSE x \in at : TRUE][2])
                          ELSE None

\* m.set(k, undefined) has returned a SafeMap that has k and whose get(k)
\* is None.
SetUndefinedReadsAsNone ==
    /\ call.op = "set"
    /\ call.value = JSUndefined
    /\ call.outcome.value[call.key] = [has |-> TRUE, get |-> None]

\* C19: parseJSONWithSchema(schema)(json) never throws and has exactly one
\* of three outcomes: Err of type PARSE_ERROR when json is not valid JSON,
\* the schema then never consulted; Err of type ZOD_ERROR when it parses
\* and the schema rejects the value; Ok(parsed data) otherwise.  The same
\* for the earlier parseJSON(json, schema).
ParseJSONClassifies ==
    call.op \in {"parseJSONWithSchema", "parseJSON(json, schema)"} =>
        /\ call.outcome.kind = "return"
        /\ IF JSON_parse(call.json).kind = "throw"
           THEN /\ isErr(call.outcome.value)
                /\ call.outcome.value.error.type = "PARSE_ERROR"
                /\ call.outcome.calls = <<>>
           ELSE IF JSON_parse(call.json).value \notin call.schema
           THEN /\ isErr(call.outcome.value)
                /\ call.outcome.value.error.type = "ZOD_ERROR"
           ELSE call.outcome.value = Ok(JSON_parse(call.json).value)

\* parseJSONWithSchema has returned a ZOD_ERROR: the text is JSON and the
\* schema, which accepts some value, rejects this one.
SchemaRejectedParsedValue ==
    /\ call.op = "parseJSONWithSchema"
    /\ call.schema # {}
    /\ isErr(call.outcome.value)
    /\ call.outcome.value.error.type = "ZOD_ERROR"
    /\ call.outcome.calls # <<>>

\* The open and error events the WebSocket has fired, by position, and what
\* C18 expects of the promise: pending until the first of them, then settled
\* by it for good, fulfilled with Ok on open and with Err(event) on error.
Decisive == {i \in DOMAIN ws.events : ws.events[i].type \in {"open", "error"}}
FirstDecisive == ws.events[CHOOSE i \in Decisive : \A j \in Decisive : i <= j]
SettledByFirstEvent ==
    IF Decisive = {} THEN promise.state \in {"none", "pending"}
    ELSE /\ promise.state # "pending"
         /\ isOk(promise.value) <=> FirstDecisive.type = "open"
         /\ FirstDecisive.type = "error" => promise.value = Err(FirstDecisive)

\* C18: the promise of a run of createSafeWebSocket never rejects; it
\* resolves with Ok when open fires first and with Err(event) when error
\* fires first, and a later open or error does not change it.
ConnectFailureIsData ==
    /\ promise.state # "rejected"
    /\ SettledByFirstEvent

\* The part of C18 that holds: in every version the first open or error
\* settles the promise for good, with Ok or with Err(event), and in every
\* version but the first the promise never rejects.
ConnectSettlesOnce ==
    /\ config.version # "first" => promise.state # "rejected"
    /\ SettledByFirstEvent

\* The first version's promise has rejected with Err(event): error fired
\* before open.
FirstVersionRejected ==
    /\ config.version = "first"
    /\ promise.state = "rejected"
    /\ isErr(promise.value)
    /\ \E i \in DOMAIN ws.events : ws.events[i].type = "open"

\* The calls heard of the user's message listeners, and the messages the
\* WebSocket has fired, each in order.
HeardMessages == SelectSeq(heard, LAMBDA c : c.fn \in {"onMessage", "onInvalidMessage"})
FiredMessages == SelectSeq(ws.events, LAMBDA e : e.type = "message")
HeardUser ==
    SelectSeq(heard, LAMBDA c :
        c.fn \in {"onConnectionOpened", "onMessage", "onInvalidMessage", "onClose"})

\* What C20 expects a message to invoke.
Answers(c, data) ==
    IF JSON_parse(data).kind = "return" /\ JSON_parse(data).value \in config.schema
    THEN c = Invoke("onMessage", JSON_parse(data).value)
    ELSE /\ c.fn = "onInvalidMessage"
         /\ c.arg[1].type \in {"PARSE_ERROR", "ZOD_ERROR"}
         /\ c.arg[2] = data

\* C20: in the versions with onConnectionOpened, no listener of the user is
\* called before open; onConnectionOpened is called once per open, before
\* the promise resolves Ok; and each message received since calls exactly
\* one of onMessage (with the parsed data, when the message is JSON the
\* schema accepts) and onInvalidMessage (with the error and the raw
\* message), in arrival order.
ListenersFollowEvents ==
    config.version \in {"config", "curried", "injected"} =>
        /\ (\A i \in DOMAIN ws.events : ws.events[i].type # "open") => HeardUser = <<>>
        /\ HeardUser # <<>> => HeardUser[1].fn = "onConnectionOpened"
        /\ Cardinality({i \in DOMAIN heard : heard[i].fn = "onConnectionOpened"})
              = Cardinality({i \in DOMAIN ws.events : ws.events[i].type = "open"})
        /\ \A i \in DOMAIN heard :
              (heard[i].fn = "resolve" /\ isOk(heard[i].arg)) =>
                  \E j \in 1..(i - 1) : heard[j].fn = "onConnectionOpened"
        /\ Len(HeardMessages) = Len(FiredMessages)
        /\ \A i \in DOMAIN HeardMessages : Answers(HeardMessages[i], FiredMessages[i].data)

\* After open, a message the schema accepts and then one it rejects have
\* called onMessage and then onInvalidMessage.
HeardValidThenInvalid ==
    /\ config.version \in {"config", "curried", "injected"}
    /\ Len(HeardMessages) = 2
    /\ HeardMessages[1].fn = "onMessage"
    /\ HeardMessages[2].fn = "onInvalidMessage"
    /\ HeardMessages[2].arg[1].type = "ZOD_ERROR"

====
